---- MODULE Spec2Model ----
(***************************************************************************)
(* Job lifecycle of the music tagger: the seeder (worker/seed.py), the two *)
(* worker pipelines analyze_track and write_tags (worker/tasks.py) and the *)
(* review actions (ui/app.py, worker/tasks.py), all acting on the shared   *)
(* sqlite table jobs and the two rq channels "analysis" and "processing".  *)
(***************************************************************************)
EXTENDS Integers, Sequences, FiniteSets, TLC

\* ---------------------------------------------------------------- bounds
NumFiles == 1       \* music files found under MUSIC_DIR
NumWorkers == 2     \* rq worker processes
NumSeeders == 2     \* seed.py processes that may run at the same time
MaxSeedRuns == 2    \* seed.py invocations in a behaviour
MaxUiOps == 2       \* HTTP / review requests in a behaviour
MaxBulk == 1        \* length of a bulk request's job_ids list
MaxCands == 1       \* length of the AcoustID result list
MaxDeaths == 1      \* worker processes that die in a behaviour

\* ------------------------------------------------------ program constants
DefaultThreshold == 80   \* CONFIDENCE_THRESHOLD default

Thresholds == {65, DefaultThreshold}   \* configured thresholds explored
Scores == {0, 65, 80}                  \* result.score * 100 values explored

Workers == 1..NumWorkers
Seeders == 1..NumSeeders
Paths == 1..(NumFiles + 2)             \* paths a job row may name
JobIds == 1..(NumFiles + 1)            \* ids a request may name; the last never exists

Null == <<>>                           \* SQL NULL
Some(v) == <<v>>

\* file suffix of each path: SUPPORTED_EXTENSIONS of the seeder
Exts == <<".mp3", ".ogg", ".m4a">>
Ext(p) == Exts[((p - 1) % 3) + 1]

\* find_music_files: the sorted list of files
Files == [i \in 1..NumFiles |-> i]

\* the four fields write_tags sets; a dict entry of matched_meta is missing
\* (NoKey), None or "" (Empty), or a text
TagFields == {"title", "artist", "album", "date"}
NoKey == "<no key>"
Empty == ""
OldTags == [f \in TagFields |-> "old"]

VARIABLES
    jobs,       \* the jobs table: sequence of rows, id = index (AUTOINCREMENT)
    chan,       \* rq channels: name -> sequence of job ids
    saves,      \* per path: number of audio.save() calls performed
    tags,       \* per path: the file's tag container, field -> text
    wpc,        \* per worker: position in its pipeline
    wjob,       \* per worker: job_id argument
    wmeta,      \* per worker: matched_meta read by write_tags
    wresults,   \* per worker: results of lookup_acoustid in analyze_track
    spc,        \* per seeder: position in seed_queue
    sidx,       \* per seeder: index into files
    sjob,       \* per seeder: job_id
    sdry,       \* per seeder: dry_run
    seedRuns,   \* seed.py invocations so far
    uiOps,      \* review requests so far
    resp,       \* return value / response of the last finished handler
    threshold   \* CONFIDENCE_THRESHOLD

vars == <<jobs, chan, saves, tags, wpc, wjob, wmeta, wresults, spc, sidx,
          sjob, sdry, seedRuns, uiOps, resp, threshold>>

wvars == <<wpc, wjob, wmeta, wresults>>
svars == <<spc, sidx, sjob, sdry, seedRuns>>
uvars == <<uiOps, resp>>
Ret(st, code) == [status |-> st, code |-> code]

Exists(id) == id \in DOMAIN jobs
Pair(j) == <<j.queue, j.status>>

\* ------------------------------------------------------------------ Init
\* processes at rest, nothing read or claimed
ProcessesIdle ==
    /\ wpc = [w \in Workers |-> "idle"]
    /\ wjob = [w \in Workers |-> 0]
    /\ wmeta = [w \in Workers |-> Null]
    /\ wresults = [w \in Workers |-> <<>>]
    /\ spc = [s \in Seeders |-> "idle"]
    /\ sidx = [s \in Seeders |-> 0]
    /\ sjob = [s \in Seeders |-> 0]
    /\ sdry = [s \in Seeders |-> FALSE]
    /\ seedRuns = 0
    /\ uiOps = 0
    /\ resp = Ret("none", 0)
    /\ threshold \in Thresholds

Init ==
    /\ jobs = <<>>
    /\ chan = [c \in {"analysis", "processing"} |-> <<>>]
    /\ saves = [p \in Paths |-> 0]
    /\ tags = [p \in Paths |-> OldTags]
    /\ ProcessesIdle

\* ---------------------------------------------------------------- seeder
\* INSERT INTO jobs (path, queue, status) VALUES (?, 'analysis', 'pending')
NewJob(p) ==
    [path |-> p, queue |-> "analysis", status |-> "pending",
     confidence |-> Null, current_meta |-> Null, matched_meta |-> Null,
     error |-> Null]

\* SELECT id, status FROM jobs WHERE path = ?  (fetchone)
IdsOfPath(p) == {i \in DOMAIN jobs : jobs[i].path = p}
ExistingId(p) == CHOOSE i \in IdsOfPath(p) : \A k \in IdsOfPath(p) : i <= k

\* the path column declared without UNIQUE: no INSERT is refused
UniqueViolationIgnored(p) == FALSE

\* path TEXT UNIQUE: an INSERT of a path that has a row raises IntegrityError
UniqueViolation(p) == IdsOfPath(p) # {}

\* next iteration of "for filepath in files", or the end of seed_queue
SeedAdvance(s) ==
    IF sidx[s] < Len(Files)
    THEN /\ sidx' = [sidx EXCEPT ![s] = sidx[s] + 1]
         /\ spc' = [spc EXCEPT ![s] = "select"]
         /\ sjob' = [sjob EXCEPT ![s] = 0]
         /\ UNCHANGED sdry
    ELSE /\ sidx' = [sidx EXCEPT ![s] = 0]
         /\ spc' = [spc EXCEPT ![s] = "idle"]
         /\ sjob' = [sjob EXCEPT ![s] = 0]
         /\ sdry' = [sdry EXCEPT ![s] = FALSE]

\* seed_queue(artist_filter, dry_run) up to the first iteration of its loop
SeedStart(s, dry_run) ==
    /\ spc[s] \in {"idle", "crashed"}
    /\ seedRuns < MaxSeedRuns
    /\ Len(Files) > 0
    /\ seedRuns' = seedRuns + 1
    /\ spc' = [spc EXCEPT ![s] = "select"]
    /\ sidx' = [sidx EXCEPT ![s] = 1]
    /\ sjob' = [sjob EXCEPT ![s] = 0]
    /\ sdry' = [sdry EXCEPT ![s] = dry_run]
    /\ UNCHANGED <<jobs, chan, saves, tags, wvars, uvars, threshold>>

\* python seed.py
seed_start(s) == SeedStart(s, FALSE)

\* python seed.py --dry-run
seed_start_dry_run(s) == SeedStart(s, TRUE)

seed_select(s) ==
    /\ spc[s] = "select"
    /\ LET p == Files[sidx[s]] IN
       IF IdsOfPath(p) # {}
       THEN IF jobs[ExistingId(p)].status \in {"done", "processing"}
            THEN SeedAdvance(s)
            ELSE /\ sjob' = [sjob EXCEPT ![s] = ExistingId(p)]
                 /\ spc' = [spc EXCEPT ![s] = "enqueue"]
                 /\ UNCHANGED <<sidx, sdry>>
       ELSE /\ spc' = [spc EXCEPT ![s] = "insert"]
            /\ UNCHANGED <<sidx, sjob, sdry>>
    /\ UNCHANGED <<jobs, chan, saves, tags, wvars, uvars, seedRuns, threshold>>

seed_insert(s) ==
    /\ spc[s] = "insert"
    /\ LET p == Files[sidx[s]] IN
       IF UniqueViolation(p)
       THEN /\ spc' = [spc EXCEPT ![s] = "crashed"]
            /\ sidx' = [sidx EXCEPT ![s] = 0]
            /\ sdry' = [sdry EXCEPT ![s] = FALSE]
            /\ UNCHANGED <<jobs, sjob>>
       ELSE /\ jobs' = Append(jobs, NewJob(p))
            /\ sjob' = [sjob EXCEPT ![s] = Len(jobs) + 1]
            /\ spc' = [spc EXCEPT ![s] = "enqueue"]
            /\ UNCHANGED <<sidx, sdry>>
    /\ UNCHANGED <<chan, saves, tags, wvars, uvars, seedRuns, threshold>>

\* "if dry_run: print(...) else: queue.enqueue(analyze_track, job_id)"
seed_enqueue(s) ==
    /\ spc[s] = "enqueue"
    /\ chan' = IF sdry[s] THEN chan
               ELSE [chan EXCEPT !["analysis"] = Append(@, sjob[s])]
    /\ SeedAdvance(s)
    /\ UNCHANGED <<jobs, saves, tags, wvars, uvars, seedRuns, threshold>>

\* ------------------------------------------------------- analyze_track
\* "Find best match": the running maximum over results, strict ">" from 0,
\* counting only results with a recording that has releasegroups
RECURSIVE BestScore(_, _)
BestScore(results, best) ==
    IF results = <<>> THEN best
    ELSE LET r == Head(results) IN
         IF r.score > best /\ r.rec
         THEN BestScore(Tail(results), r.score)
         ELSE BestScore(Tail(results), best)

\* the position in results of best_match after the loop, 0 for None
RECURSIVE BestIndex(_, _, _, _)
BestIndex(results, i, best, idx) ==
    IF i > Len(results) THEN idx
    ELSE IF results[i].score > best /\ results[i].rec
         THEN BestIndex(results, i + 1, results[i].score, i)
         ELSE BestIndex(results, i + 1, best, idx)

Candidates == [score : Scores, rec : BOOLEAN]
RECURSIVE SeqsUpTo(_, _)
SeqsUpTo(S, n) ==
    IF n = 0 THEN {<<>>}
    ELSE LET T == SeqsUpTo(S, n - 1) IN
         T \cup {Append(t, x) : t \in {u \in T : Len(u) = n - 1}, x \in S}

ResultLists == SeqsUpTo(Candidates, MaxCands)

\* result lists one longer, for the runs that follow a single job
LongResultLists == SeqsUpTo(Candidates, MaxCands + 1)

\* the routing decision with ">" in place of ">="
TargetQueueStrict(confidence, thr) ==
    IF confidence > thr THEN "processing" ELSE "review"

\* "Determine target queue based on confidence"
TargetQueue(confidence, thr) ==
    IF confidence >= thr THEN "processing" ELSE "review"

\* get_current_metadata: None for a suffix it does not read, else the tags or
\* {"error": ...}
CurrentMetas(p) ==
    IF Ext(p) \in {".mp3", ".flac", ".m4a", ".mp4"}
    THEN {"tags", "error"} ELSE {"none"}

\* the body of the try block up to the routing decision: fingerprint_file
\* gave a fingerprint or None, lookup_acoustid had an API key or raised
AnalyzeOutcome(fpOk, keySet, results) ==
    IF ~fpOk
    THEN [ok |-> FALSE, error |-> "Failed to generate fingerprint",
          score |-> 0, match |-> 0]
    ELSE IF ~keySet
    THEN [ok |-> FALSE, error |-> "ACOUSTID_API_KEY not set",
          score |-> 0, match |-> 0]
    ELSE IF results = <<>>
    THEN [ok |-> FALSE, error |-> "No AcoustID matches found",
          score |-> 0, match |-> 0]
    ELSE IF BestIndex(results, 1, 0, 0) = 0
    THEN [ok |-> FALSE,
          error |-> "No valid recordings found in AcoustID results",
          score |-> 0, match |-> 0]
    ELSE [ok |-> TRUE, error |-> "", score |-> BestScore(results, 0),
          match |-> BestIndex(results, 1, 0, 0)]

\* mb_details: None, a release group without first-release-date, or with one
MbDates == {NoKey, Empty, "new"}

\* matched_meta of a best match whose recording has a title, artists and a
\* release group with a title; the release group of the result at position
\* match has id match
BuildMeta(confidence, match, date) ==
    [title |-> "new", artist |-> "new", confidence |-> confidence,
     album |-> "new", release_group_id |-> match, date |-> date]

\* UPDATE jobs SET status = 'processing' WHERE id = ? with the write left out
ClaimWriteSkipped(js, id) == js

\* UPDATE jobs SET status = 'processing' WHERE id = ?
ClaimWrite(js, id) ==
    [js EXCEPT ![id].status = "processing"]

\* the result UPDATE without "confidence = ?"
ResultWriteNoConfidence(js, id, target, confidence, cur, matched) ==
    [js EXCEPT ![id].queue = target,
               ![id].status = "pending",
               ![id].current_meta = Some(cur),
               ![id].matched_meta = Some(matched)]

\* UPDATE jobs SET queue = ?, status = 'pending', confidence = ?,
\*   current_meta = ?, matched_meta = ? WHERE id = ?
ResultWrite(js, id, target, confidence, cur, matched) ==
    [js EXCEPT ![id].queue = target,
               ![id].status = "pending",
               ![id].confidence = Some(confidence),
               ![id].current_meta = Some(cur),
               ![id].matched_meta = Some(matched)]

\* the failure UPDATE that also resets confidence and matched_meta
FailWriteResetsMatch(js, id, msg) ==
    [js EXCEPT ![id].queue = "failed",
               ![id].status = "failed",
               ![id].error = Some(msg),
               ![id].confidence = Null,
               ![id].matched_meta = Null]

\* the failure UPDATE binding no message
FailWriteNoMessage(js, id, msg) ==
    [js EXCEPT ![id].queue = "failed", ![id].status = "failed"]

\* UPDATE jobs SET queue = 'failed', status = 'failed', error = ? WHERE id = ?
FailWrite(js, id, msg) ==
    [js EXCEPT ![id].queue = "failed",
               ![id].status = "failed",
               ![id].error = Some(msg)]

\* positions of analyze_track between its claim write and its final write
AzRunning == {"az_claimed", "az_nofingerprint", "az_nokey", "az_looked"}

\* a worker takes the next id of the analysis channel and runs analyze_track
\* up to "filepath = job['path']"
analyze_track_load(w) ==
    /\ wpc[w] = "idle"
    /\ chan["analysis"] # <<>>
    /\ LET id == Head(chan["analysis"]) IN
       /\ chan' = [chan EXCEPT !["analysis"] = Tail(@)]
       /\ IF Exists(id)
          THEN /\ wpc' = [wpc EXCEPT ![w] = "az_loaded"]
               /\ wjob' = [wjob EXCEPT ![w] = id]
               /\ UNCHANGED resp
          ELSE /\ resp' = Ret("Job not found", 0)
               /\ UNCHANGED <<wpc, wjob>>
    /\ UNCHANGED <<jobs, saves, tags, wmeta, wresults, svars, uiOps, threshold>>

analyze_track_claim(w) ==
    /\ wpc[w] = "az_loaded"
    /\ jobs' = ClaimWrite(jobs, wjob[w])
    /\ wpc' = [wpc EXCEPT ![w] = "az_claimed"]
    /\ UNCHANGED <<chan, saves, tags, wjob, wmeta, wresults, svars, uvars,
                   threshold>>

\* fingerprint_file and lookup_acoustid with the given outcomes
AnalyzeLookup(w, fps, keys, lists) ==
    /\ wpc[w] = "az_claimed"
    /\ \E fpOk \in fps, keySet \in keys, results \in lists :
          IF ~fpOk
          THEN /\ wpc' = [wpc EXCEPT ![w] = "az_nofingerprint"]
               /\ UNCHANGED wresults
          ELSE IF ~keySet
          THEN /\ wpc' = [wpc EXCEPT ![w] = "az_nokey"]
               /\ UNCHANGED wresults
          ELSE /\ wpc' = [wpc EXCEPT ![w] = "az_looked"]
               /\ wresults' = [wresults EXCEPT ![w] = results]
    /\ UNCHANGED <<jobs, chan, saves, tags, wjob, wmeta, svars, uvars,
                   threshold>>

analyze_track_lookup(w) == AnalyzeLookup(w, BOOLEAN, BOOLEAN, ResultLists)

analyze_track_lookup_long(w) ==
    AnalyzeLookup(w, BOOLEAN, BOOLEAN, LongResultLists)

\* the rest of the try block, and the except block; dates: what
\* get_musicbrainz_release can answer
AnalyzeFinish(w, dates) ==
    /\ wpc[w] \in AzRunning \ {"az_claimed"}
    /\ \E cur \in CurrentMetas(jobs[wjob[w]].path), date \in dates :
       LET out == AnalyzeOutcome(wpc[w] # "az_nofingerprint",
                                 wpc[w] # "az_nokey", wresults[w])
           target == TargetQueue(out.score, threshold)
       IN IF out.ok
          THEN /\ jobs' = ResultWrite(jobs, wjob[w], target, out.score, cur,
                                      BuildMeta(out.score, out.match, date))
               /\ resp' = Ret("success", 0)
               /\ IF target = "processing"
                  THEN /\ wpc' = [wpc EXCEPT ![w] = "az_enqueue"]
                       /\ UNCHANGED wjob
                  ELSE /\ wpc' = [wpc EXCEPT ![w] = "idle"]
                       /\ wjob' = [wjob EXCEPT ![w] = 0]
          ELSE /\ jobs' = FailWrite(jobs, wjob[w], out.error)
               /\ resp' = Ret("error", 0)
               /\ wpc' = [wpc EXCEPT ![w] = "idle"]
               /\ wjob' = [wjob EXCEPT ![w] = 0]
    /\ wresults' = [wresults EXCEPT ![w] = <<>>]
    /\ UNCHANGED <<chan, saves, tags, wmeta, svars, uiOps, threshold>>

\* the release group found with its first-release-date
analyze_track_finish(w) == AnalyzeFinish(w, {"new"})

analyze_track_finish_any_date(w) == AnalyzeFinish(w, MbDates)

\* "If high confidence, enqueue for processing"
analyze_track_enqueue(w) ==
    /\ wpc[w] = "az_enqueue"
    /\ chan' = [chan EXCEPT !["processing"] = Append(@, wjob[w])]
    /\ wpc' = [wpc EXCEPT ![w] = "idle"]
    /\ wjob' = [wjob EXCEPT ![w] = 0]
    /\ UNCHANGED <<jobs, saves, tags, wmeta, wresults, svars, uvars,
                   threshold>>

\* ------------------------------------------------------------ write_tags
\* the DELETE of a finished job in place of its final UPDATE
DoneWriteDeletesRow(js, id) == SubSeq(js, 1, id - 1)

\* UPDATE jobs SET queue = 'done', status = 'done' WHERE id = ?
DoneWrite(js, id) ==
    [js EXCEPT ![id].queue = "done", ![id].status = "done"]

\* matched_meta.get(f) of the dict read by write_tags ({} for a NULL column)
MetaGet(meta, f) == IF meta = Null THEN NoKey ELSE meta[1][f]

\* truth value of matched_meta.get(f)
Truthy(v) == v \notin {NoKey, Empty}

\* the four assignments guarded by "f in matched_meta" in place of
\* "matched_meta.get(f)"
WriteFieldsOfKeys(t, meta) ==
    [f \in TagFields |->
        IF MetaGet(meta, f) # NoKey THEN MetaGet(meta, f) ELSE t[f]]

\* "if matched_meta.get(f): audio[f] = matched_meta[f]" for the four fields
WriteFields(t, meta) ==
    [f \in TagFields |->
        IF Truthy(MetaGet(meta, f)) THEN MetaGet(meta, f) ELSE t[f]]

write_tags_load(w) ==
    /\ wpc[w] = "idle"
    /\ chan["processing"] # <<>>
    /\ LET id == Head(chan["processing"]) IN
       /\ chan' = [chan EXCEPT !["processing"] = Tail(@)]
       /\ IF Exists(id)
          THEN /\ wpc' = [wpc EXCEPT ![w] = "wt_loaded"]
               /\ wjob' = [wjob EXCEPT ![w] = id]
               /\ wmeta' = [wmeta EXCEPT ![w] = jobs[id].matched_meta]
               /\ UNCHANGED resp
          ELSE /\ resp' = Ret("Job not found", 0)
               /\ UNCHANGED <<wpc, wjob, wmeta>>
    /\ UNCHANGED <<jobs, saves, tags, wresults, svars, uiOps, threshold>>

write_tags_claim(w) ==
    /\ wpc[w] = "wt_loaded"
    /\ jobs' = ClaimWrite(jobs, wjob[w])
    /\ wpc' = [wpc EXCEPT ![w] = "wt_claimed"]
    /\ UNCHANGED <<chan, saves, tags, wjob, wmeta, wresults, svars, uvars,
                   threshold>>

\* the try block of write_tags: open the container, set the fields, save;
\* ios: whether opening and saving the file succeed
WriteTagsFinish(w, ios) ==
    /\ wpc[w] = "wt_claimed"
    /\ LET id == wjob[w]
           p == jobs[id].path
       IN \E ioOk \in ios :
          IF Ext(p) \notin {".mp3", ".flac", ".m4a", ".mp4"}
          THEN /\ jobs' = FailWrite(jobs, id, "Unsupported file type")
               /\ resp' = Ret("error", 0)
               /\ UNCHANGED <<saves, tags>>
          ELSE IF ioOk
          THEN /\ tags' = [tags EXCEPT ![p] = WriteFields(@, wmeta[w])]
               /\ saves' = [saves EXCEPT ![p] = @ + 1]
               /\ jobs' = DoneWrite(jobs, id)
               /\ resp' = Ret("success", 0)
          ELSE /\ jobs' = FailWrite(jobs, id, "tag write error")
               /\ resp' = Ret("error", 0)
               /\ UNCHANGED <<saves, tags>>
    /\ wpc' = [wpc EXCEPT ![w] = "idle"]
    /\ wjob' = [wjob EXCEPT ![w] = 0]
    /\ wmeta' = [wmeta EXCEPT ![w] = Null]
    /\ UNCHANGED <<chan, wresults, svars, uiOps, threshold>>

write_tags_finish(w) == WriteTagsFinish(w, BOOLEAN)

\* ---------------------------------------------------------- process death
\* a worker process is killed between the claim write and the final write of
\* the task it runs; its job_id stays on record, its other locals are gone
worker_dies(w) ==
    /\ wpc[w] \in AzRunning \cup {"wt_claimed"}
    /\ Cardinality({v \in Workers : wpc[v] = "dead"}) < MaxDeaths
    /\ wpc' = [wpc EXCEPT ![w] = "dead"]
    /\ wmeta' = [wmeta EXCEPT ![w] = Null]
    /\ wresults' = [wresults EXCEPT ![w] = <<>>]
    /\ UNCHANGED <<jobs, chan, saves, tags, wjob, svars, uvars, threshold>>

\* -------------------------------------------------------- review actions
\* UPDATE jobs SET queue = 'processing', status = 'pending'
\*   WHERE id = ? AND queue = 'review'
ApproveWrite(js, id) ==
    IF id \in DOMAIN js /\ js[id].queue = "review"
    THEN [js EXCEPT ![id].queue = "processing", ![id].status = "pending"]
    ELSE js

\* UPDATE jobs SET status = 'rejected' WHERE id = ? AND queue = 'review'
RejectWrite(js, id) ==
    IF id \in DOMAIN js /\ js[id].queue = "review"
    THEN [js EXCEPT ![id].status = "rejected"]
    ELSE js

\* retry_job's WHERE clause without "AND queue = 'failed'"
RetryWhereAnyQueue(js, id) == id \in DOMAIN js

\* WHERE id = ? AND queue = 'failed' of retry_job
RetryWhere(js, id) == id \in DOMAIN js /\ js[id].queue = "failed"

\* UPDATE jobs SET queue = 'analysis', status = 'pending', error = NULL
RetryWrite(js, id) ==
    IF RetryWhere(js, id)
    THEN [js EXCEPT ![id].queue = "analysis", ![id].status = "pending",
                    ![id].error = Null]
    ELSE js

\* ui/app.py approve_job: enqueue when the row exists
ApproveEnqueues(js, id) == id \in DOMAIN js

ui_approve_job(id) ==
    /\ uiOps < MaxUiOps
    /\ uiOps' = uiOps + 1
    /\ jobs' = ApproveWrite(jobs, id)
    /\ chan' = IF ApproveEnqueues(jobs, id)
               THEN [chan EXCEPT !["processing"] = Append(@, id)]
               ELSE chan
    /\ resp' = Ret("approved", 200)
    /\ UNCHANGED <<saves, tags, wvars, svars, threshold>>

ui_reject_job(id) ==
    /\ uiOps < MaxUiOps
    /\ uiOps' = uiOps + 1
    /\ jobs' = RejectWrite(jobs, id)
    /\ resp' = Ret("rejected", 200)
    /\ UNCHANGED <<chan, saves, tags, wvars, svars, threshold>>

\* the loop of bulk_approve over job_ids
RECURSIVE BulkApproveJobs(_, _)
BulkApproveJobs(js, ids) ==
    IF ids = <<>> THEN js
    ELSE BulkApproveJobs(ApproveWrite(js, Head(ids)), Tail(ids))

RECURSIVE BulkRejectJobs(_, _)
BulkRejectJobs(js, ids) ==
    IF ids = <<>> THEN js
    ELSE BulkRejectJobs(RejectWrite(js, Head(ids)), Tail(ids))

IdLists == SeqsUpTo(JobIds, MaxBulk)

bulk_approve(ids) ==
    /\ uiOps < MaxUiOps
    /\ uiOps' = uiOps + 1
    /\ jobs' = BulkApproveJobs(jobs, ids)
    /\ chan' = [chan EXCEPT !["processing"] = @ \o ids]
    /\ resp' = Ret("approved", 200)
    /\ UNCHANGED <<saves, tags, wvars, svars, threshold>>

bulk_reject(ids) ==
    /\ uiOps < MaxUiOps
    /\ uiOps' = uiOps + 1
    /\ jobs' = BulkRejectJobs(jobs, ids)
    /\ resp' = Ret("rejected", 200)
    /\ UNCHANGED <<chan, saves, tags, wvars, svars, threshold>>

retry_job(id) ==
    /\ uiOps < MaxUiOps
    /\ uiOps' = uiOps + 1
    /\ jobs' = RetryWrite(jobs, id)
    /\ IF RetryWhere(jobs, id)
       THEN /\ chan' = [chan EXCEPT !["analysis"] = Append(@, id)]
            /\ resp' = Ret("retried", 200)
       ELSE /\ chan' = chan
            /\ resp' = Ret("error", 404)
    /\ UNCHANGED <<saves, tags, wvars, svars, threshold>>

\* worker/tasks.py approve_job: enqueues unconditionally
tasks_approve_job(id) ==
    /\ uiOps < MaxUiOps
    /\ uiOps' = uiOps + 1
    /\ jobs' = ApproveWrite(jobs, id)
    /\ chan' = [chan EXCEPT !["processing"] = Append(@, id)]
    /\ resp' = Ret("approved", 0)
    /\ UNCHANGED <<saves, tags, wvars, svars, threshold>>

tasks_reject_job(id) ==
    /\ uiOps < MaxUiOps
    /\ uiOps' = uiOps + 1
    /\ jobs' = RejectWrite(jobs, id)
    /\ resp' = Ret("rejected", 0)
    /\ UNCHANGED <<chan, saves, tags, wvars, svars, threshold>>

\* ------------------------------------------------------------------ Next
Next ==
    \/ \E s \in Seeders : seed_start(s)
    \/ \E s \in Seeders : seed_start_dry_run(s)
    \/ \E s \in Seeders : seed_select(s)
    \/ \E s \in Seeders : seed_insert(s)
    \/ \E s \in Seeders : seed_enqueue(s)
    \/ \E w \in Workers : analyze_track_load(w)
    \/ \E w \in Workers : analyze_track_claim(w)
    \/ \E w \in Workers : analyze_track_lookup(w)
    \/ \E w \in Workers : analyze_track_finish(w)
    \/ \E w \in Workers : analyze_track_enqueue(w)
    \/ \E w \in Workers : write_tags_load(w)
    \/ \E w \in Workers : write_tags_claim(w)
    \/ \E w \in Workers : write_tags_finish(w)
    \/ \E w \in Workers : worker_dies(w)
    \/ \E id \in JobIds : ui_approve_job(id)
    \/ \E id \in JobIds : ui_reject_job(id)
    \/ \E ids \in IdLists : bulk_approve(ids)
    \/ \E ids \in IdLists : bulk_reject(ids)
    \/ \E id \in JobIds : retry_job(id)
    \/ \E id \in JobIds : tasks_approve_job(id)
    \/ \E id \in JobIds : tasks_reject_job(id)

Spec == Init /\ [][Next]_vars

\* ------------------------------------------------------------ scenario A
\* one run of seed.py on the new files; every fingerprint succeeds, the
\* lookup returns one result with a release group and a score at or above
\* the threshold, and every tag write succeeds
scenario_a_seed(s) == seedRuns = 0 /\ seed_start(s)

ScenarioAResults ==
    {<<c>> : c \in {x \in Candidates : x.rec /\ x.score >= threshold}}

scenario_a_lookup(w) == AnalyzeLookup(w, {TRUE}, {TRUE}, ScenarioAResults)

scenario_a_write(w) == WriteTagsFinish(w, {TRUE})

NextA ==
    \/ \E s \in Seeders : scenario_a_seed(s)
    \/ \E s \in Seeders : seed_select(s)
    \/ \E s \in Seeders : seed_insert(s)
    \/ \E s \in Seeders : seed_enqueue(s)
    \/ \E w \in Workers : analyze_track_load(w)
    \/ \E w \in Workers : analyze_track_claim(w)
    \/ \E w \in Workers : scenario_a_lookup(w)
    \/ \E w \in Workers : analyze_track_finish_any_date(w)
    \/ \E w \in Workers : analyze_track_enqueue(w)
    \/ \E w \in Workers : write_tags_load(w)
    \/ \E w \in Workers : write_tags_claim(w)
    \/ \E w \in Workers : scenario_a_write(w)

\* a started seed.py runs on, and an idle rq worker takes the next message
\* of its channel and runs the task to its end
FairA ==
    /\ \A s \in Seeders :
          /\ WF_vars(seed_select(s))
          /\ WF_vars(seed_insert(s))
          /\ WF_vars(seed_enqueue(s))
    /\ \A w \in Workers :
          /\ WF_vars(analyze_track_load(w))
          /\ WF_vars(analyze_track_claim(w))
          /\ WF_vars(scenario_a_lookup(w))
          /\ WF_vars(analyze_track_finish_any_date(w))
          /\ WF_vars(analyze_track_enqueue(w))
          /\ WF_vars(write_tags_load(w))
          /\ WF_vars(write_tags_claim(w))
          /\ WF_vars(scenario_a_write(w))

SpecA == Init /\ [][NextA]_vars /\ FairA

\* ---------------------------------------------------- one job, followed
\* matched_meta records analyze_track can store: title None or a text, the
\* joined artist names "" or a text, album and release_group_id missing
\* (0) or set, date missing, "" or a text
MetaShapes ==
    {[title |-> t, artist |-> a, confidence |-> c, album |-> b,
      release_group_id |-> IF b = NoKey THEN 0 ELSE 1, date |-> d] :
        t \in {Empty, "new"}, a \in {Empty, "new"}, c \in Scores \ {0},
        b \in {NoKey, Empty, "new"}, d \in MbDates}

\* tag containers of a file before any write: each field absent or set
FileTags == [TagFields -> {Empty, "old"}]

\* a job that analysis or an approve has put in (processing,pending)
RoutedJob(p, m) ==
    [NewJob(p) EXCEPT !.queue = "processing",
                      !.confidence = Some(m.confidence),
                      !.current_meta = Some("tags"),
                      !.matched_meta = Some(m)]

\* one job of any path with its message on its channel: just seeded, or
\* routed to processing with any matched_meta
InitPipeline ==
    /\ \E p \in Paths, t \in FileTags :
          /\ tags = [q \in Paths |-> IF q = p THEN t ELSE OldTags]
          /\ \/ /\ jobs = <<NewJob(p)>>
                /\ chan = [c \in {"analysis", "processing"} |->
                              IF c = "analysis" THEN <<1>> ELSE <<>>]
             \/ \E m \in MetaShapes :
                   /\ jobs = <<RoutedJob(p, m)>>
                   /\ chan = [c \in {"analysis", "processing"} |->
                                 IF c = "processing" THEN <<1>> ELSE <<>>]
    /\ saves = [p \in Paths |-> 0]
    /\ ProcessesIdle

NextPipeline ==
    \/ \E w \in Workers : analyze_track_load(w)
    \/ \E w \in Workers : analyze_track_claim(w)
    \/ \E w \in Workers : analyze_track_lookup_long(w)
    \/ \E w \in Workers : analyze_track_finish_any_date(w)
    \/ \E w \in Workers : analyze_track_enqueue(w)
    \/ \E w \in Workers : write_tags_load(w)
    \/ \E w \in Workers : write_tags_claim(w)
    \/ \E w \in Workers : write_tags_finish(w)

PipelineSpec == InitPipeline /\ [][NextPipeline]_vars

\* ================================================================ claims
AnalysisPending == <<"analysis", "pending">>
AnalysisProcessing == <<"analysis", "processing">>
ProcessingPending == <<"processing", "pending">>
ProcessingProcessing == <<"processing", "processing">>
ReviewPending == <<"review", "pending">>
ReviewRejected == <<"review", "rejected">>
FailedFailed == <<"failed", "failed">>
DoneDone == <<"done", "done">>

ValidPairs ==
    {AnalysisPending, AnalysisProcessing, ProcessingPending,
     ProcessingProcessing, ReviewPending, ReviewRejected, FailedFailed,
     DoneDone}

\* the ten transitions of the state-machine table
StateMachine ==
    {<<AnalysisPending, AnalysisProcessing>>,
     <<AnalysisProcessing, ProcessingPending>>,
     <<AnalysisProcessing, ReviewPending>>,
     <<AnalysisProcessing, FailedFailed>>,
     <<ReviewPending, ProcessingPending>>,
     <<ReviewPending, ReviewRejected>>,
     <<ProcessingPending, ProcessingProcessing>>,
     <<ProcessingProcessing, DoneDone>>,
     <<ProcessingProcessing, FailedFailed>>,
     <<FailedFailed, AnalysisPending>>}

\* the workers inside their pipeline for job id: after the claim write and
\* before the final write
Owners(id) ==
    {w \in Workers : wpc[w] \in AzRunning \cup {"wt_claimed"} /\ wjob[w] = id}

\* C1: in every reachable state, every job is owned by at most one in-flight
\* worker execution (analyze_track or write_tags between its claim write and
\* its final write).
C1_SingleOwner ==
    \A id \in DOMAIN jobs : Cardinality(Owners(id)) <= 1

\* C2: every (queue, status) pair a job is observed in is one of the eight
\* pairs of the state machine, and every change of pair is one of its ten
\* transitions.
C2_ValidPath ==
    [][\A id \in DOMAIN jobs' :
          /\ Pair(jobs'[id]) \in ValidPairs
          /\ (id \in DOMAIN jobs /\ Pair(jobs'[id]) # Pair(jobs[id]))
                => <<Pair(jobs[id]), Pair(jobs'[id])>> \in StateMachine]_vars

\* the source queue of the transition that the process taking this step
\* writes on job id: a worker in analyze_track writes transitions out of
\* queue analysis, a worker in write_tags out of queue processing, retry out
\* of queue failed, approve and reject out of queue review
WriterSource(id) ==
    IF \E w \in Workers : /\ wjob[w] = id
                          /\ wpc[w] \in {"az_loaded"} \cup AzRunning
                          /\ wpc'[w] # wpc[w]
    THEN "analysis"
    ELSE IF \E w \in Workers : /\ wjob[w] = id
                               /\ wpc[w] \in {"wt_loaded", "wt_claimed"}
                               /\ wpc'[w] # wpc[w]
    THEN "processing"
    ELSE IF Pair(jobs'[id]) = AnalysisPending THEN "failed"
    ELSE "review"

\* C3: a write changes a job's queue or status only if the job's current
\* queue is the source queue of the transition written; otherwise it is a
\* no-op.
C3_ConditionalWrites ==
    [][\A id \in DOMAIN jobs :
          Pair(jobs'[id]) # Pair(jobs[id])
              => jobs[id].queue = WriterSource(id)]_vars

\* C4: a worker delivered a job that is not in the eligible state of its
\* pipeline ((analysis,pending) for analyze_track, (processing,pending) for
\* write_tags) aborts at its claim: it returns to idle, no job row changes,
\* no tag write is performed and nothing is enqueued.
C4_IneligibleAborts ==
    [][\A w \in Workers :
          /\ (/\ wpc[w] = "az_loaded"
              /\ wpc'[w] # wpc[w]
              /\ Pair(jobs[wjob[w]]) # AnalysisPending)
                => (wpc'[w] = "idle" /\ UNCHANGED <<jobs, chan, saves>>)
          /\ (/\ wpc[w] = "wt_loaded"
              /\ wpc'[w] # wpc[w]
              /\ Pair(jobs[wjob[w]]) # ProcessingPending)
                => (wpc'[w] = "idle" /\ UNCHANGED <<jobs, chan, saves>>)]_vars

\* C5: (done,done) and (review,rejected) are absorbing: no step changes the
\* queue or status of a job in one of them; a job in (failed,failed) changes
\* its pair only in a step of retry_job.
C5_TerminalAbsorbing ==
    [][\A id \in DOMAIN jobs :
          /\ Pair(jobs[id]) \in {DoneDone, ReviewRejected}
                => Pair(jobs'[id]) = Pair(jobs[id])
          /\ (Pair(jobs[id]) = FailedFailed /\ Pair(jobs'[id]) # FailedFailed)
                => retry_job(id)]_vars

\* C6: the result write of a successful analysis leaves the job in queue
\* processing when its confidence (0..100) is >= the threshold and in queue
\* review when it is below, with status pending in both cases.
C6_Routing ==
    [][\A w \in Workers :
          (/\ wpc[w] = "az_looked"
           /\ wpc'[w] \in {"idle", "az_enqueue"}
           /\ resp'.status = "success")
             => LET j == jobs'[wjob[w]]
                    c == j.confidence[1]
                IN /\ j.confidence # Null
                   /\ c \in 0..100
                   /\ j.status = "pending"
                   /\ (c >= threshold => j.queue = "processing")
                   /\ (c < threshold => j.queue = "review")]_vars

\* C6 witness: an analysis run has just routed a job whose confidence equals
\* the threshold to (processing,pending) and is about to enqueue it.
C6_Witness ==
    \E w \in Workers :
        /\ wpc[w] = "az_enqueue"
        /\ jobs[wjob[w]].confidence = Some(threshold)
        /\ Pair(jobs[wjob[w]]) = ProcessingPending

\* C7: retry_job of a job in (failed,failed) sets it to (analysis,pending)
\* with error NULL and appends its id to the analysis channel; retry_job of a
\* job that does not exist or is not in queue failed changes no job, enqueues
\* nothing and answers with an error.
C7_Retry ==
    [][\A id \in JobIds :
          retry_job(id) =>
             /\ (Exists(id) /\ Pair(jobs[id]) = FailedFailed)
                   => /\ Pair(jobs'[id]) = AnalysisPending
                      /\ jobs'[id].error = Null
                      /\ chan'["analysis"] = Append(chan["analysis"], id)
                      /\ chan'["processing"] = chan["processing"]
             /\ (~Exists(id) \/ jobs[id].queue # "failed")
                   => /\ jobs' = jobs
                      /\ chan' = chan
                      /\ resp'.status = "error"]_vars

\* C7 witness: a retry has just put a failed job back to (analysis,pending)
\* with its error cleared and its id on the analysis channel.
C7_Witness ==
    /\ resp = Ret("retried", 200)
    /\ \E id \in DOMAIN jobs :
          /\ Pair(jobs[id]) = AnalysisPending
          /\ jobs[id].error = Null
          /\ chan["analysis"] # <<>>
          /\ chan["analysis"][Len(chan["analysis"])] = id

\* C8: analyze_track goes on to enqueue the id on the processing channel only
\* if its result write moved the job out of (analysis,processing).
C8_EnqueueOnlyIfApplied ==
    [][\A w \in Workers :
          (wpc[w] = "az_looked" /\ wpc'[w] = "az_enqueue")
              => Pair(jobs[wjob[w]]) = AnalysisProcessing]_vars

\* C9: an approve (ui, worker module or bulk) of a job that is not in
\* (review,pending) changes no job row and enqueues nothing.
C9_ApproveConflict ==
    [][\A id \in JobIds :
          (/\ \/ ui_approve_job(id)
              \/ tasks_approve_job(id)
              \/ bulk_approve(<<id>>)
           /\ ~(Exists(id) /\ Pair(jobs[id]) = ReviewPending))
              => (jobs' = jobs /\ chan' = chan)]_vars

\* C10: in every reachable state no two jobs share the same path.
C10_UniquePath ==
    \A i, k \in DOMAIN jobs : i # k => jobs[i].path # jobs[k].path

\* C10 witness: a seeder that found no row for a path lost the race to
\* another seeder; its INSERT hit the UNIQUE constraint and created nothing.
C10_Witness ==
    /\ \E s \in Seeders : spc[s] = "crashed"
    /\ \A p \in Paths : Cardinality(IdsOfPath(p)) <= 1
    /\ jobs # <<>>

\* C11: a job in (review,pending) stays there until a review request decides
\* it: its pair changes only in a step of a review request, to
\* (processing,pending) or to (review,rejected); a job in (review,rejected)
\* never changes its pair again and no tag write is performed on its file.
C11_ReviewScenario ==
    [][\A id \in DOMAIN jobs :
          /\ (Pair(jobs[id]) = ReviewPending /\ Pair(jobs'[id]) # ReviewPending)
                => /\ uiOps' # uiOps
                   /\ Pair(jobs'[id]) \in {ProcessingPending, ReviewRejected}
          /\ Pair(jobs[id]) = ReviewRejected
                => /\ Pair(jobs'[id]) = ReviewRejected
                   /\ saves'[jobs[id].path] = saves[jobs[id].path]]_vars

\* the path of scenario A through the state machine
ScenarioAPath ==
    {<<AnalysisPending, AnalysisProcessing>>,
     <<AnalysisProcessing, ProcessingPending>>,
     <<ProcessingPending, ProcessingProcessing>>,
     <<ProcessingProcessing, DoneDone>>}

\* the tag write of a job can succeed: write_tags opens files of its suffix
Writable(id) == Ext(jobs[id].path) \in {".mp3", ".flac", ".m4a", ".mp4"}

\* C12: in scenario A every job created whose file write_tags can open
\* eventually reaches (done,done), it is created in (analysis,pending), and
\* every change of its pair is the next step of (analysis,pending),
\* (analysis,processing), (processing,pending), (processing,processing),
\* (done,done).
C12_ScenarioA ==
    /\ \A id \in JobIds :
          (Exists(id) /\ Writable(id))
             ~> (Exists(id) /\ Pair(jobs[id]) = DoneDone)
    /\ [][\A id \in DOMAIN jobs' :
             IF id \in DOMAIN jobs
             THEN \/ ~Writable(id)
                  \/ Pair(jobs'[id]) = Pair(jobs[id])
                  \/ <<Pair(jobs[id]), Pair(jobs'[id])>> \in ScenarioAPath
             ELSE Pair(jobs'[id]) = AnalysisPending]_vars

\* C12 witness: a job of scenario A is in (done,done) after one tag write,
\* with a confidence at or above the threshold.
C12_Witness ==
    \E id \in DOMAIN jobs :
        /\ Pair(jobs[id]) = DoneDone
        /\ saves[jobs[id].path] = 1
        /\ jobs[id].confidence # Null
        /\ jobs[id].confidence[1] >= threshold

\* a run whose fingerprint failed ends with the job in (failed,failed), its
\* error equal to msg and its confidence and matched_meta as they were; a
\* retry of a job in (failed,failed) sets it to (analysis,pending)
FingerprintFailureEnds(msg) ==
    /\ \A w \in Workers :
          (wpc[w] = "az_nofingerprint" /\ wpc'[w] = "idle")
             => LET id == wjob[w] IN
                /\ Pair(jobs'[id]) = FailedFailed
                /\ jobs'[id].error = Some(msg)
                /\ jobs'[id].confidence = jobs[id].confidence
                /\ jobs'[id].matched_meta = jobs[id].matched_meta
    /\ \A id \in DOMAIN jobs :
          (Pair(jobs[id]) = FailedFailed /\ retry_job(id))
             => Pair(jobs'[id]) = AnalysisPending

Present(meta, f) == meta # Null /\ meta[1][f] \notin {NoKey, Empty}

\* C14: a run of write_tags that saves the file sets each of title, artist,
\* album, date that is present in matched_meta to its value there and
\* leaves every other field of the file, and every other file, as it was; a
\* run that fails leaves all tags as they were.
C14_TagFrame ==
    [][\A w \in Workers :
          (wpc[w] = "wt_claimed" /\ wpc'[w] = "idle")
             => LET p == jobs[wjob[w]].path
                    m == wmeta[w]
                IN /\ \A f \in TagFields :
                         tags'[p][f] =
                            IF resp'.status = "success" /\ Present(m, f)
                            THEN m[1][f] ELSE tags[p][f]
                   /\ \A q \in Paths \ {p} : tags'[q] = tags[q]]_vars

\* C14 witness: a file has been saved for a job whose matched_meta has only
\* title and artist present; its title and artist are the matched ones, its
\* album and date the ones it had.
C14_Witness ==
    \E id \in DOMAIN jobs :
        LET p == jobs[id].path
            m == jobs[id].matched_meta
        IN /\ Pair(jobs[id]) = DoneDone
           /\ saves[p] = 1
           /\ Present(m, "title") /\ Present(m, "artist")
           /\ ~Present(m, "album") /\ ~Present(m, "date")
           /\ tags[p] = [f \in TagFields |->
                            IF f \in {"title", "artist"} THEN "new" ELSE "old"]

\* some candidate of the list carries a recording with a release group
Usable(results) == \E i \in DOMAIN results : results[i].rec

\* C15: every run of analyze_track or write_tags returns a result to its
\* caller; a run whose fingerprint failed, whose lookup raised, whose result
\* list has no usable candidate, whose file type is unsupported or whose tag
\* write failed ends with the job it claimed in (failed,failed) with a
\* non-null error, and a run that saved the tags ends with it in (done,done).
C15_FailuresCaught ==
    [][\A w \in Workers :
          LET id == wjob[w] IN
          /\ (wpc[w] \in AzRunning \ {"az_claimed"}
                 /\ wpc'[w] \in {"idle", "az_enqueue"})
                => /\ resp'.status \in {"success", "error"}
                   /\ (\/ wpc[w] # "az_looked"
                       \/ ~Usable(wresults[w])
                       \/ resp'.status = "error")
                         => /\ Pair(jobs'[id]) = FailedFailed
                            /\ jobs'[id].error # Null
                            /\ resp'.status = "error"
          /\ (wpc[w] = "wt_claimed" /\ wpc'[w] = "idle")
                => IF saves'[jobs[id].path] # saves[jobs[id].path]
                   THEN /\ Pair(jobs'[id]) = DoneDone
                        /\ resp'.status = "success"
                   ELSE /\ Pair(jobs'[id]) = FailedFailed
                        /\ jobs'[id].error # Null
                        /\ resp'.status = "error"]_vars

\* C15 witness: a job whose analysis succeeded has been failed by write_tags
\* for its unsupported file type.
C15_Witness ==
    \E id \in DOMAIN jobs :
        /\ Pair(jobs[id]) = FailedFailed
        /\ jobs[id].error = Some("Unsupported file type")
        /\ jobs[id].matched_meta # Null
        /\ resp = Ret("error", 0)

\* C16: analyze_track, write_tags, approve, reject and retry called with an
\* id that no job has change no job row, enqueue nothing and report the
\* absence in their result.
C16_MissingJob ==
    [][/\ \A id \in JobIds \ DOMAIN jobs :
             (\/ ui_approve_job(id)
              \/ tasks_approve_job(id)
              \/ ui_reject_job(id)
              \/ tasks_reject_job(id)
              \/ retry_job(id))
                => /\ jobs' = jobs
                   /\ chan' = chan
                   /\ resp'.status \in {"error", "Job not found"}
       /\ \A w \in Workers :
             (\/ /\ chan["analysis"] # <<>>
                 /\ ~Exists(Head(chan["analysis"]))
                 /\ analyze_track_load(w)
              \/ /\ chan["processing"] # <<>>
                 /\ ~Exists(Head(chan["processing"]))
                 /\ write_tags_load(w))
                => /\ jobs' = jobs
                   /\ Len(chan'["analysis"]) <= Len(chan["analysis"])
                   /\ Len(chan'["processing"]) <= Len(chan["processing"])
                   /\ resp'.status = "Job not found"]_vars

\* the ids on a channel
OnChannel(c) == {chan[c][i] : i \in DOMAIN chan[c]}

\* job id is with a process that runs on it or is about to enqueue it: a
\* worker inside the pipeline named, the worker or the seeder that has
\* written the state and has its enqueue as next step
HeldFor(id, c) ==
    \/ \E w \in Workers :
          /\ wjob[w] = id
          /\ wpc[w] \in IF c = "analysis" THEN {"az_loaded"} \cup AzRunning
                         ELSE {"wt_loaded", "wt_claimed", "az_enqueue"}
    \/ /\ c = "analysis"
       /\ \E s \in Seeders : spc[s] = "enqueue" /\ sjob[s] = id /\ ~sdry[s]

\* C17: as long as no worker has died, a job in (analysis,pending) has its
\* id on the analysis channel or is held by a process for analysis, and a
\* job in (processing,pending) has its id on the processing channel or is
\* held by a process for processing.
C17_NoSilentLoss ==
    (\A w \in Workers : wpc[w] # "dead")
       => \A id \in DOMAIN jobs :
             /\ Pair(jobs[id]) = AnalysisPending
                   => (id \in OnChannel("analysis") \/ HeldFor(id, "analysis"))
             /\ Pair(jobs[id]) = ProcessingPending
                   => (id \in OnChannel("processing")
                         \/ HeldFor(id, "processing"))

\* C18: no step removes a job, and no step changes the path stored under a
\* job's id.
C18_JobsOnlyGrow ==
    [][/\ Len(jobs') >= Len(jobs)
       /\ \A id \in DOMAIN jobs :
             /\ id \in DOMAIN jobs'
             /\ jobs'[id].path = jobs[id].path]_vars

\* C18 witness: after all seed runs and review requests of a behaviour the
\* job of the first file is still there under id 1, in (done,done), its
\* file saved.
C18_Witness ==
    /\ seedRuns = MaxSeedRuns
    /\ uiOps = MaxUiOps
    /\ Exists(1)
    /\ jobs[1].path = Files[1]
    /\ Pair(jobs[1]) = DoneDone
    /\ saves[Files[1]] > 0

\* the positions of the candidates of a result list that carry a recording
\* with a release group
Valid(results) == {i \in DOMAIN results : results[i].rec}

\* the valid candidate with the highest score, the earliest among equals
Selected(results) ==
    CHOOSE i \in Valid(results) :
        \A k \in Valid(results) :
            \/ results[i].score > results[k].score
            \/ (results[i].score = results[k].score /\ i <= k)

\* C19: a run of analyze_track that got a result list fails the job only
\* when the list has no valid candidate; otherwise it stores the confidence
\* and the release group of the valid candidate with the highest score,
\* the earliest one among equals.
C19_BestMatch ==
    [][\A w \in Workers :
          (wpc[w] = "az_looked" /\ wpc'[w] \in {"idle", "az_enqueue"})
             => LET id == wjob[w]
                    r == wresults[w]
                IN IF Valid(r) = {}
                   THEN Pair(jobs'[id]) = FailedFailed
                   ELSE /\ resp'.status = "success"
                        /\ jobs'[id].confidence = Some(r[Selected(r)].score)
                        /\ jobs'[id].matched_meta[1].release_group_id
                              = Selected(r)]_vars

\* C20: when a worker dies between its claim write and its final write, the
\* job it claimed has status processing and the queue it had, and from then
\* on, while that job has status processing, no step changes its queue or
\* status.
C20_CrashLeavesClaimed ==
    [][\A w \in Workers :
          LET id == wjob[w] IN
          /\ (wpc[w] # "dead" /\ wpc'[w] = "dead")
                => /\ jobs'[id].status = "processing"
                   /\ jobs'[id].queue = jobs[id].queue
          /\ (wpc[w] = "dead" /\ jobs[id].status = "processing")
                => Pair(jobs'[id]) = Pair(jobs[id])]_vars

\* worker w ends a successful analysis of job id in this step
AnalysisSucceeds(w, id) ==
    /\ wpc[w] = "az_looked"
    /\ wjob[w] = id
    /\ wpc'[w] \in {"idle", "az_enqueue"}
    /\ resp'.status = "success"

\* C21: in every reachable state a job whose matched_meta is non-null has a
\* non-null confidence; a new job has neither, and a step that changes a
\* job's confidence or matched_meta is the end of a successful analysis run
\* of that job, which sets both.
C21_MatchedHasConfidence ==
    /\ [](\A id \in DOMAIN jobs :
            jobs[id].matched_meta # Null => jobs[id].confidence # Null)
    /\ [][\A id \in DOMAIN jobs' :
             IF id \in DOMAIN jobs
             THEN (\/ jobs'[id].confidence # jobs[id].confidence
                   \/ jobs'[id].matched_meta # jobs[id].matched_meta)
                     => /\ \E w \in Workers : AnalysisSucceeds(w, id)
                        /\ jobs'[id].confidence # Null
                        /\ jobs'[id].matched_meta # Null
             ELSE /\ jobs'[id].confidence = Null
                  /\ jobs'[id].matched_meta = Null]_vars

\* C21 witness: a job that failed after an earlier successful analysis still
\* carries the matched_meta and the confidence of that analysis.
C21_Witness ==
    \E id \in DOMAIN jobs :
        /\ Pair(jobs[id]) = FailedFailed
        /\ jobs[id].matched_meta # Null
        /\ jobs[id].confidence # Null

\* this step puts job id on channel c
PutOnChannel(c, id) ==
    /\ Len(chan'[c]) = Len(chan[c]) + 1
    /\ chan'[c][Len(chan'[c])] = id

\* every job in (failed,failed) has a non-null error
FailedHasError ==
    \A id \in DOMAIN jobs :
        Pair(jobs[id]) = FailedFailed => jobs[id].error # Null

\* C22: in every reachable state every job in (failed,failed) has a
\* non-null error, and a step that puts a job on the analysis channel
\* leaves its error null.
C22_ErrorCleared ==
    /\ []FailedHasError
    /\ [][\A id \in DOMAIN jobs :
             PutOnChannel("analysis", id) => jobs'[id].error = Null]_vars

\* C23: whenever a seeder puts a job id on the analysis channel, that job is
\* in (analysis,pending) at that moment.
C23_SeederEnqueuesPending ==
    [][\A s \in Seeders :
          (spc[s] = "enqueue" /\ PutOnChannel("analysis", sjob[s]))
             => Pair(jobs[sjob[s]]) = AnalysisPending]_vars

\* C24: after the tag write of a job's file has succeeded, no later step
\* saves that file again.
C24_WriteOnce ==
    [][\A id \in DOMAIN jobs :
          saves[jobs[id].path] >= 1
             => saves'[jobs[id].path] = saves[jobs[id].path]]_vars

\* C25: in every reachable state a job whose queue is not failed has a null
\* error.
C25_ErrorOnlyInFailed ==
    \A id \in DOMAIN jobs :
        jobs[id].queue # "failed" => jobs[id].error = Null

\* C26: in every reachable state a job in (done,done) has a non-null
\* matched_meta, as every job that analysis or an approve has routed to
\* (processing,pending) has: write_tags marks done no job that was never
\* analysed.
C26_DoneWasAnalysed ==
    \A id \in DOMAIN jobs :
        Pair(jobs[id]) = DoneDone => jobs[id].matched_meta # Null

====
